---------------------------- MODULE Spec2Model ----------------------------
(***************************************************************************)
(* A model of the plagiarism detection tool: the similarity engine         *)
(* (PlagiarismDetector, src/src/util/deepSeekApi.ts), the text extraction  *)
(* collaborator (PDFExtractor) and the upload pipeline of the React        *)
(* component (App, src/src/App.tsx).                                       *)
(*                                                                         *)
(* A JavaScript string is modelled as a sequence of characters, each       *)
(* character a one-character TLA+ string, so that length, substring,       *)
(* split, trim and the regular expressions of the code are computed on     *)
(* characters as the code computes them.  The alphabet is ASCII.           *)
(*                                                                         *)
(* Math.round((a / b) * 100) is modelled by exact round-half-up            *)
(* arithmetic.  IEEE doubles agree with it for every 0 <= a <= b <= 80     *)
(* but a / b = 23 / 40, where the product is 57.49999999999999 and not     *)
(* 57.5; no input of this model has a denominator of 40 (the word counts   *)
(* are below 10, or 36, or 45).                                            *)
(***************************************************************************)
EXTENDS Integers, Sequences, FiniteSets, TLC

VARIABLES
  results,   \* App: the React state `results`, newest record first
  loading,   \* App: the React state `loading`
  error,     \* App: the React state `error` (NoError models null)
  upload,    \* the handleFileUpload invocation in flight, if any
  now,       \* the clock read by Date.now()
  done,      \* the outcome of the last finished handleFileUpload invocation
  call       \* the last call made to a function of the engine, with its result

vars == <<results, loading, error, upload, now, done, call>>

(***************************************************************************)
(* Characters and the string primitives of the JavaScript runtime.         *)
(***************************************************************************)
UPPER ==
  <<"A","B","C","D","E","F","G","H","I","J","K","L","M","N","O","P","Q","R","S","T","U","V","W","X","Y","Z">>

LOWER ==
  <<"a","b","c","d","e","f","g","h","i","j","k","l","m","n","o","p","q","r","s","t","u","v","w","x","y","z">>

DIGITS ==
  <<"0","1","2","3","4","5","6","7","8","9">>

Range(s) == { s[i] : i \in DOMAIN s }

\* [a-z], [A-Z], [0-9], \s and [.!?] as character classes (ASCII)
LowerChars == Range(LOWER)

UpperChars == Range(UPPER)

DigitChars == Range(DIGITS)

IsLower(c) == c \in LowerChars

IsUpper(c) == c \in UpperChars

IsDigit(c) == c \in DigitChars

WhitespaceChars == {" ", "\t", "\n"}

SentenceDelimiters == {".", "!", "?"}

IsSpace(c) == c \in WhitespaceChars

\* String.prototype.toLowerCase
LowerOf == [c \in UpperChars |-> LOWER[CHOOSE i \in DOMAIN UPPER : UPPER[i] = c]]

ToLowerChar(c) == IF IsUpper(c) THEN LowerOf[c] ELSE c

toLowerCase(text) == [i \in DOMAIN text |-> ToLowerChar(text[i])]

\* the indices of a string, in order
Indices(s) == [i \in 1..Len(s) |-> i]

\* String.prototype.split(/[class]+/): a maximal run of separator characters
\* is one boundary, so the pieces are the maximal runs of other characters,
\* in order; a boundary at either end of the string leaves an empty piece
\* there, and the empty string splits into one empty piece.
SplitOnRuns(text, separators) ==
  LET n == Len(text)
      IsSep(c) == c \in separators
      IsStart(i) == ~IsSep(text[i]) /\ (i = 1 \/ IsSep(text[i - 1]))
      IsEnd(j) == ~IsSep(text[j]) /\ (j = n \/ IsSep(text[j + 1]))
      starts == SelectSeq(Indices(text), IsStart)
      ends == SelectSeq(Indices(text), IsEnd)
      runs == [k \in 1..Len(starts) |-> SubSeq(text, starts[k], ends[k])]
      lead == IF IsSep(text[1]) THEN << <<>> >> ELSE <<>>
      trail == IF IsSep(text[n]) THEN << <<>> >> ELSE <<>>
  IN  IF n = 0 THEN << <<>> >> ELSE lead \o runs \o trail

\* String.prototype.trim
trim(s) ==
  LET NotSpace(i) == ~IsSpace(s[i])
      keep == SelectSeq(Indices(s), NotSpace)
  IN  IF Len(keep) = 0 THEN <<>> ELSE SubSeq(s, keep[1], keep[Len(keep)])

\* String.prototype.substring(0, n)
substring0(s, n) == SubSeq(s, 1, IF Len(s) < n THEN Len(s) ELSE n)

\* Math.max of two numbers
Max2(a, b) == IF a >= b THEN a ELSE b

\* Math.round((num / den) * 100) for 0 <= num, 0 < den
RoundPercent(num, den) == (200 * num + den) \div (2 * den)

(***************************************************************************)
(* PlagiarismDetector: the tokenizer and the similarity engine.            *)
(***************************************************************************)
MIN_SENTENCE_LENGTH == 15

MIN_WORD_LENGTH == 3

SIMILARITY_THRESHOLD == 75

\* the number of matches findDetailedMatches keeps: .slice(0, 5)
TOP_MATCHES == 5

\* the display length of a matched sentence: substring(0, 200)
SENTENCE_DISPLAY_LENGTH == 200

\* the truncation marker '...'
TRUNCATION_MARKER == <<".", ".", ".">>

stopWords ==
    { <<"t","h","e">>, <<"a">>, <<"a","n">>, <<"a","n","d">>, <<"o","r">>, <<"b","u","t">>,
      <<"i","n">>, <<"o","n">>, <<"a","t">>, <<"t","o">>, <<"f","o","r">>, <<"o","f">>,
      <<"w","i","t","h">>, <<"b","y">>, <<"i","s">>, <<"a","r","e">>, <<"w","a","s">>,
      <<"w","e","r","e">>, <<"b","e">>, <<"b","e","e","n">>, <<"b","e","i","n","g">>,
      <<"h","a","v","e">>, <<"h","a","s">>, <<"h","a","d">>, <<"d","o">>, <<"d","o","e","s">>,
      <<"d","i","d">>, <<"w","i","l","l">>, <<"w","o","u","l","d">>, <<"c","o","u","l","d">>,
      <<"s","h","o","u","l","d">>, <<"m","a","y">>, <<"m","i","g","h","t">>, <<"c","a","n">>,
      <<"t","h","i","s">>, <<"t","h","a","t">>, <<"t","h","e","s","e">>, <<"t","h","o","s","e">>
    }

isStopWord(word) == word \in stopWords

\* /^[a-zA-Z]+$/.test(word)
IsAlphabetic(word) ==
  /\ Len(word) >= 1
  /\ \A i \in DOMAIN word : IsLower(word[i]) \/ IsUpper(word[i])

\* the filter predicate of getSignificantWords
IsSignificant(word) ==
  /\ Len(word) >= MIN_WORD_LENGTH
  /\ ~isStopWord(word)
  /\ IsAlphabetic(word)

\* a mutant: a token is cleaned of its digits and punctuation, not dropped
getSignificantWords_cleaning(text) ==
  LET IsLetter(c) == IsLower(c) \/ IsUpper(c)
      tokens == SplitOnRuns(toLowerCase(text), WhitespaceChars)
  IN  SelectSeq([k \in DOMAIN tokens |-> SelectSeq(tokens[k], IsLetter)],
                IsSignificant)

getSignificantWords(text) ==
  SelectSeq(SplitOnRuns(toLowerCase(text), WhitespaceChars), IsSignificant)

IsLongEnough(s) == Len(s) >= MIN_SENTENCE_LENGTH

extractSentences(text) ==
  LET parts == SplitOnRuns(text, SentenceDelimiters)
  IN  SelectSeq([i \in DOMAIN parts |-> trim(parts[i])], IsLongEnough)

\* a mutant: the share of the first text's words found in the second
calculateSimilarity_containment(text1, text2) ==
  LET words1 == getSignificantWords(text1)
      words2 == getSignificantWords(text2)
  IN  IF Len(words1) = 0 \/ Len(words2) = 0 THEN 0
      ELSE LET set1 == Range(words1)
               set2 == Range(words2)
               intersection == { x \in set1 : x \in set2 }
           IN  RoundPercent(Cardinality(intersection), Cardinality(set1))

calculateSimilarity(text1, text2) ==
  LET words1 == getSignificantWords(text1)
      words2 == getSignificantWords(text2)
  IN  IF Len(words1) = 0 \/ Len(words2) = 0 THEN 0
      ELSE LET set1 == Range(words1)
               set2 == Range(words2)
               intersection == { x \in set1 : x \in set2 }
               union == set1 \cup set2
           IN  RoundPercent(Cardinality(intersection), Cardinality(union))

\* a mutant: the smaller of the two word counts divides
calculateSentenceSimilarity_min(sentence1, sentence2) ==
  LET words1 == getSignificantWords(sentence1)
      words2 == getSignificantWords(sentence2)
      Min2(a, b) == IF a <= b THEN a ELSE b
  IN  IF Len(words1) = 0 \/ Len(words2) = 0 THEN 0
      ELSE LET includes(word) == \E j \in DOMAIN words2 : words2[j] = word
               commonWords == SelectSeq(words1, includes)
           IN  RoundPercent(Len(commonWords), Min2(Len(words1), Len(words2)))

\* a mutant: a repeated common word counts once
calculateSentenceSimilarity_distinct(sentence1, sentence2) ==
  LET words1 == getSignificantWords(sentence1)
      words2 == getSignificantWords(sentence2)
  IN  IF Len(words1) = 0 \/ Len(words2) = 0 THEN 0
      ELSE LET includes(word) == \E j \in DOMAIN words2 : words2[j] = word
               commonWords == SelectSeq(words1, includes)
           IN  RoundPercent(Cardinality(Range(commonWords)),
                            Max2(Len(words1), Len(words2)))

calculateSentenceSimilarity(sentence1, sentence2) ==
  LET words1 == getSignificantWords(sentence1)
      words2 == getSignificantWords(sentence2)
  IN  IF Len(words1) = 0 \/ Len(words2) = 0 THEN 0
      ELSE LET includes(word) == \E j \in DOMAIN words2 : words2[j] = word
               commonWords == SelectSeq(words1, includes)
           IN  RoundPercent(Len(commonWords), Max2(Len(words1), Len(words2)))

\* one entry of `matches`: lines 78-82
MatchedSentence(sentence, similarity, fileName) ==
  [ sentence   |-> substring0(sentence, SENTENCE_DISPLAY_LENGTH)
                     \o (IF Len(sentence) > SENTENCE_DISPLAY_LENGTH
                         THEN TRUNCATION_MARKER ELSE <<>>),
    similarity |-> similarity,
    sourceFile |-> fileName ]

\* a mutant: a pair at the threshold itself is not retained
RECURSIVE ForEachExistingSentence_strict(_, _, _, _, _)
ForEachExistingSentence_strict(sentence, existingSentences, fileName, j, matches) ==
  IF j > Len(existingSentences) THEN matches
  ELSE LET similarity ==
             calculateSentenceSimilarity(sentence, existingSentences[j])
       IN  ForEachExistingSentence_strict(sentence, existingSentences, fileName, j + 1,
             IF similarity > SIMILARITY_THRESHOLD
             THEN Append(matches, MatchedSentence(sentence, similarity, fileName))
             ELSE matches)

\* a mutant: the sentence is cut to its display length before it is scored
RECURSIVE ForEachExistingSentence_truncated(_, _, _, _, _)
ForEachExistingSentence_truncated(sentence, existingSentences, fileName, j, matches) ==
  IF j > Len(existingSentences) THEN matches
  ELSE LET similarity ==
             calculateSentenceSimilarity(
               substring0(sentence, SENTENCE_DISPLAY_LENGTH), existingSentences[j])
       IN  ForEachExistingSentence_truncated(sentence, existingSentences, fileName, j + 1,
             IF similarity >= SIMILARITY_THRESHOLD
             THEN Append(matches, MatchedSentence(sentence, similarity, fileName))
             ELSE matches)

\* existingSentences.forEach(existingSentence => ...), from index j on
RECURSIVE ForEachExistingSentence(_, _, _, _, _)
ForEachExistingSentence(sentence, existingSentences, fileName, j, matches) ==
  IF j > Len(existingSentences) THEN matches
  ELSE LET similarity ==
             calculateSentenceSimilarity(sentence, existingSentences[j])
       IN  ForEachExistingSentence(sentence, existingSentences, fileName, j + 1,
             IF similarity >= SIMILARITY_THRESHOLD
             THEN Append(matches, MatchedSentence(sentence, similarity, fileName))
             ELSE matches)

\* sentences.forEach(sentence => ...), from index i on
RECURSIVE ForEachSentence(_, _, _, _, _)
ForEachSentence(sentences, existingSentences, fileName, i, matches) ==
  IF i > Len(sentences) THEN matches
  ELSE ForEachSentence(sentences, existingSentences, fileName, i + 1,
         ForEachExistingSentence(sentences[i], existingSentences, fileName, 1, matches))

\* existingResults.forEach(result => ...), from index d on
RECURSIVE ForEachResult(_, _, _, _)
ForEachResult(sentences, existingResults, d, matches) ==
  IF d > Len(existingResults) THEN matches
  ELSE ForEachResult(sentences, existingResults, d + 1,
         ForEachSentence(sentences, extractSentences(existingResults[d].content),
                         existingResults[d].fileName, 1, matches))

\* the comparator (a, b) => b.similarity - a.similarity: negative when a goes first
CompareMatches(a, b) == b.similarity - a.similarity

\* a mutant: an unstable sort, which places an element before its equals
InsertSorted_unstable(sorted, x) ==
  LET before == { k \in DOMAIN sorted : CompareMatches(sorted[k], x) < 0 }
      n == Cardinality({ k \in DOMAIN sorted :
                           \A m \in 1..k : m \in before })
  IN  SubSeq(sorted, 1, n) \o <<x>> \o SubSeq(sorted, n + 1, Len(sorted))

\* Array.prototype.sort is stable (ECMAScript 2019): an element is placed
\* after every element already placed that does not compare greater than it.
InsertSorted(sorted, x) ==
  LET before == { k \in DOMAIN sorted : CompareMatches(sorted[k], x) <= 0 }
      n == Cardinality({ k \in DOMAIN sorted :
                           \A m \in 1..k : m \in before })
  IN  SubSeq(sorted, 1, n) \o <<x>> \o SubSeq(sorted, n + 1, Len(sorted))

RECURSIVE SortFrom(_, _, _)
SortFrom(matches, i, sorted) ==
  IF i > Len(matches) THEN sorted
  ELSE SortFrom(matches, i + 1, InsertSorted(sorted, matches[i]))

sort(matches) == SortFrom(matches, 1, <<>>)

\* Array.prototype.slice(0, n)
slice0(s, n) == SubSeq(s, 1, IF Len(s) < n THEN Len(s) ELSE n)

\* a mutant: the first five matches as encountered, unsorted
findDetailedMatches_unsorted(text, existingResults) ==
  LET sentences == extractSentences(text)
      matches == ForEachResult(sentences, existingResults, 1, <<>>)
  IN  slice0(matches, TOP_MATCHES)

findDetailedMatches(text, existingResults) ==
  LET sentences == extractSentences(text)
      matches == ForEachResult(sentences, existingResults, 1, <<>>)
  IN  slice0(sort(matches), TOP_MATCHES)

\* text.split(/\s+/).filter(word => word.length > 0).length
getWordCount(text) ==
  LET nonEmpty(word) == Len(word) > 0
  IN  Len(SelectSeq(SplitOnRuns(text, WhitespaceChars), nonEmpty))

(***************************************************************************)
(* The inputs of the engine: texts built from a vocabulary of tokens and   *)
(* of sentences.                                                           *)
(***************************************************************************)
\* the longest token sequence of an input text
MaxTokens == 3

\* the most sentences of a new document, and the most documents of a corpus
MaxNewSentences == 2

MaxDocs == 2

W_cat == <<"c","a","t">>

W_Dog == <<"D","o","g">>

W_fox == <<"f","o","x">>

W_the == <<"t","h","e">>

W_These == <<"T","h","e","s","e">>

W_runs_dot == <<"r","u","n","s",".">>

W_a1b == <<"a","1","b">>

W_ab == <<"a","b">>

W_quick == <<"q","u","i","c","k">>

W_brown == <<"b","r","o","w","n">>

W_jumps == <<"j","u","m","p","s">>

W_sleeps == <<"s","l","e","e","p","s">>

W_lazy == <<"l","a","z","y">>

W_dogs == <<"d","o","g","s">>

W_often == <<"o","f","t","e","n">>

W_over == <<"o","v","e","r">>

W_today == <<"t","o","d","a","y">>

SeqsUpTo(S, n) == UNION { [1..k -> S] : k \in 0..n }

RECURSIVE Join(_, _)
Join(pieces, sep) ==
  IF Len(pieces) = 0 THEN <<>>
  ELSE IF Len(pieces) = 1 THEN pieces[1]
  ELSE pieces[1] \o sep \o Join(Tail(pieces), sep)

RECURSIVE Repeat(_, _)
Repeat(s, n) == IF n = 0 THEN <<>> ELSE s \o Repeat(s, n - 1)

\* tokens: significant words, an upper-case word, stop words in either
\* case, a word with trailing punctuation, one with a digit, a short one
TokenVocab == { W_cat, W_Dog, W_fox, W_the, W_These, W_runs_dot, W_a1b, W_ab }

Separators == { <<" ">>, <<"\n", "\t">> }

\* a text of tokens, optionally with white space at both ends
TokenText(toks, sep, padded) ==
  IF padded THEN <<" ">> \o Join(toks, sep) \o <<"\n">> ELSE Join(toks, sep)

TokenTexts ==
  { TokenText(toks, sep, padded) :
      toks \in SeqsUpTo(TokenVocab, MaxTokens), sep \in Separators,
      padded \in BOOLEAN }

\* the texts of the two-argument functions
PairVocab == { W_cat, W_Dog, W_fox, W_the }

TextsA == { Join(toks, <<" ">>) : toks \in SeqsUpTo(PairVocab, MaxTokens) }

TextsB == { Join(toks, <<" ">>) : toks \in SeqsUpTo(PairVocab, MaxTokens - 1) }

\* sentences: two that share three words of four, an unrelated one, one
\* below MIN_SENTENCE_LENGTH, one of 250 characters and one of exactly 200
S_jumps == Join(<<W_quick, W_brown, W_fox, W_jumps>>, <<" ">>)

S_sleeps == Join(<<W_quick, W_brown, W_fox, W_sleeps>>, <<" ">>)

S_lazy == Join(<<W_lazy, W_dogs, W_sleeps, W_often>>, <<" ">>)

S_short == Join(<<W_quick, W_fox>>, <<" ">>)

S_long ==
  Repeat(S_jumps \o <<" ">>, 9)
    \o Join(<<W_over, W_lazy, W_dogs, W_sleeps, W_often, W_today, W_quick,
              W_brown, W_sleeps>>, <<" ">>)

S_exact == Repeat(S_jumps \o <<" ">>, 9) \o W_ab

SentencePool == { S_jumps, S_sleeps, S_short, S_long, S_exact }

\* a new document: its sentences, each ended by a full stop
NewText(sents) ==
  IF Len(sents) = 0 THEN <<>> ELSE Join(sents, <<".", " ">>) \o <<".">>

Doc(name, text) == [fileName |-> name, content |-> text]

DocPool ==
  { Doc("a.txt", S_jumps \o <<".", " ">> \o S_sleeps \o <<".">>),
    Doc("b.txt", S_sleeps \o <<"!", "?", " ">> \o S_lazy \o <<"?">>),
    Doc("c.pdf", S_long \o <<".", " ">> \o S_short \o <<".">>) }

(***************************************************************************)
(* The engine called on its own.  Every function of it is pure: a call is  *)
(* made with its arguments, runs to its result in one step, and returns.   *)
(***************************************************************************)
Idle == [pc |-> "idle"]

Requests ==
  { [fn |-> "getSignificantWords", text |-> t] : t \in TokenTexts }
    \cup { [fn |-> f, text1 |-> a, text2 |-> b] :
             f \in {"calculateSimilarity", "calculateSentenceSimilarity"},
             a \in TextsA, b \in TextsB }
    \cup { [fn |-> "findDetailedMatches", text |-> NewText(sents),
            corpus |-> corpus] :
             sents \in SeqsUpTo(SentencePool, MaxNewSentences),
             corpus \in SeqsUpTo(DocPool, MaxDocs) }

Returned(req, ret) == [pc |-> "returned", req |-> req, ret |-> ret]

Invoke ==
  /\ call = Idle
  /\ \E req \in Requests : call' = [pc |-> "called", req |-> req]
  /\ UNCHANGED <<results, loading, error, upload, now, done>>

RunGetSignificantWords ==
  /\ call.pc = "called"
  /\ call.req.fn = "getSignificantWords"
  /\ call' = Returned(call.req, getSignificantWords(call.req.text))
  /\ UNCHANGED <<results, loading, error, upload, now, done>>

RunCalculateSimilarity ==
  /\ call.pc = "called"
  /\ call.req.fn = "calculateSimilarity"
  /\ call' = Returned(call.req,
                      calculateSimilarity(call.req.text1, call.req.text2))
  /\ UNCHANGED <<results, loading, error, upload, now, done>>

RunCalculateSentenceSimilarity ==
  /\ call.pc = "called"
  /\ call.req.fn = "calculateSentenceSimilarity"
  /\ call' = Returned(call.req,
                      calculateSentenceSimilarity(call.req.text1, call.req.text2))
  /\ UNCHANGED <<results, loading, error, upload, now, done>>

RunFindDetailedMatches ==
  /\ call.pc = "called"
  /\ call.req.fn = "findDetailedMatches"
  /\ call' = Returned(call.req,
                      findDetailedMatches(call.req.text, call.req.corpus))
  /\ UNCHANGED <<results, loading, error, upload, now, done>>

Return ==
  /\ call.pc = "returned"
  /\ call' = Idle
  /\ UNCHANGED <<results, loading, error, upload, now, done>>

(***************************************************************************)
(* PDFExtractor: the text of an uploaded file.  A File is modelled by its  *)
(* name, MIME type, size in bytes and what reading it yields: `failure`    *)
(* is the exception the read rejects with (NoFailure when it succeeds),    *)
(* `pages` the text of the file (the one text of a plain-text file, the    *)
(* text items of each page of a PDF, joined) and `hasImages` whether a     *)
(* page of the PDF paints an image.                                        *)
(***************************************************************************)
MAX_FILE_SIZE == 20 * 1024 * 1024

MIN_TEXT_LENGTH == 10

\* content.length < 50 in handleFileUpload
MIN_CONTENT_LENGTH == 50

\* an exception: an Error with its message, or a value that is no Error
Error(message) == [isError |-> TRUE, message |-> message]

NonError(value) == [isError |-> FALSE, message |-> value]

NoFailure == [isError |-> FALSE, message |-> <<>>]

\* the outcome of an async function: its value, or the exception thrown
Resolve(text, pageCount) == [ok |-> TRUE, text |-> text, pageCount |-> pageCount]

Reject(exception) == [ok |-> FALSE, thrown |-> exception]

\* (file.size / 1024 / 1024).toFixed(1): the size in tenths of a megabyte,
\* rounded to the nearest
ToFixed1MB(size) == (20 * size + 1024 * 1024) \div (2 * 1024 * 1024)

\* the decimal digits of a natural number
RECURSIVE Decimal(_)
Decimal(n) ==
  IF n < 10 THEN <<DIGITS[n + 1]>>
  ELSE Decimal(n \div 10) \o <<DIGITS[(n % 10) + 1]>>

SizeLimitMessage(size) ==
  <<"File size exceeds 20MB limit. Current size: ">>
    \o Decimal(ToFixed1MB(size) \div 10) \o <<".">>
    \o Decimal(ToFixed1MB(size) % 10) \o <<"MB">>

\* the character classes of cleanText: control and non-printable characters
\* (the model's alphabet has one, U+0000), and the characters of
\* [\w\s.,!?;:()"'\-]
ControlChars == {"<U+0000>"}

KeptPunctuation == {".", ",", "!", "?", ";", ":", "(", ")", "\"", "'", "-"}

IsKeptByCleanText(c) ==
  \/ IsLower(c) \/ IsUpper(c) \/ IsDigit(c) \/ c = "_"
  \/ IsSpace(c)
  \/ c \in KeptPunctuation

\* .replace(/\s+/g, ' ')
CollapseWhitespace(s) ==
  LET StartsRunOrIsText(i) == ~IsSpace(s[i]) \/ i = 1 \/ ~IsSpace(s[i - 1])
      keep == SelectSeq(Indices(s), StartsRunOrIsText)
  IN  [k \in DOMAIN keep |-> IF IsSpace(s[keep[k]]) THEN " " ELSE s[keep[k]]]

cleanText(text) ==
  LET NotControl(c) == c \notin ControlChars
      collapsed == CollapseWhitespace(text)
      printable == SelectSeq(collapsed, NotControl)
      plain == [i \in DOMAIN printable |->
                  IF IsKeptByCleanText(printable[i]) THEN printable[i] ELSE " "]
  IN  trim(CollapseWhitespace(plain))

extractFromTXT(file) ==
  IF file.size > MAX_FILE_SIZE
  THEN Reject(Error(SizeLimitMessage(file.size)))
  ELSE IF file.failure # NoFailure
  THEN Reject(file.failure)
  ELSE LET cleanedText == cleanText(file.pages[1])
       IN  IF Len(cleanedText) < MIN_TEXT_LENGTH
           THEN Reject(Error(<<"Text file is too short or contains no readable content.">>))
           ELSE Resolve(cleanedText, 0)

\* fullText: the text of every page that has some, each followed by '\n'
RECURSIVE FullText(_)
FullText(pages) ==
  IF Len(pages) = 0 THEN <<>>
  ELSE (IF Len(trim(pages[1])) > 0 THEN pages[1] \o <<"\n">> ELSE <<>>)
         \o FullText(Tail(pages))

\* error.message.includes(needle), on the messages PDF.js rejects with
MessageIncludes(message, needle) ==
  <<message, needle>> \in
    { << <<"Invalid PDF structure.">>, "Invalid PDF structure" >>,
      << <<"Incorrect Password">>, "Password" >> }

\* the catch block of extractText
RethrowFromPDF(exception) ==
  IF exception.isError
  THEN IF MessageIncludes(exception.message, "Invalid PDF structure")
       THEN Reject(Error(<<"Invalid PDF file. The file may be corrupted.">>))
       ELSE IF MessageIncludes(exception.message, "Password")
       THEN Reject(Error(<<"This PDF is password-protected. Please provide an unlocked version.">>))
       ELSE Reject(exception)
  ELSE Reject(Error(<<"Failed to process PDF. The file may be corrupted or in an unsupported format.">>))

extractText(file) ==
  IF file.size > MAX_FILE_SIZE
  THEN Reject(Error(SizeLimitMessage(file.size)))
  ELSE IF file.failure # NoFailure
  THEN RethrowFromPDF(file.failure)
  ELSE LET cleanedText == cleanText(FullText(file.pages))
       IN  IF Len(cleanedText) < MIN_TEXT_LENGTH /\ file.hasImages
           THEN RethrowFromPDF(Error(<<"This PDF appears to contain scanned images. Text extraction failed. The document may need OCR processing.">>))
           ELSE IF Len(cleanedText) < MIN_TEXT_LENGTH
           THEN RethrowFromPDF(Error(<<"No readable text found in this PDF. The document may be corrupted or contain only images.">>))
           ELSE Resolve(cleanedText, Len(file.pages))

(***************************************************************************)
(* App: the upload pipeline.                                               *)
(***************************************************************************)
extractTextFromFile(file) ==
  IF file.type = "application/pdf" THEN extractText(file)
  ELSE IF file.type = "text/plain" THEN extractFromTXT(file)
  ELSE Reject(Error(<<"Unsupported file type. Please upload a PDF or TXT file.">>))

\* lines 32-36: the extraction, then the check of the content's length
ExtractContent(file) ==
  LET extracted == extractTextFromFile(file)
  IN  IF extracted.ok /\ Len(extracted.text) < MIN_CONTENT_LENGTH
      THEN Reject(Error(<<"File content is too short for meaningful plagiarism detection.">>))
      ELSE extracted

\* Math.max(...numbers) of a non-empty array
RECURSIVE MathMax(_)
MathMax(numbers) ==
  IF Len(numbers) = 1 THEN numbers[1]
  ELSE Max2(numbers[1], MathMax(Tail(numbers)))

\* a mutant: the new document is scored against itself as well
SimilarityAgainst_self(content, corpus) ==
  MathMax([d \in 1..(Len(corpus) + 1) |->
             IF d <= Len(corpus)
             THEN calculateSimilarity(content, corpus[d].content)
             ELSE calculateSimilarity(content, content)])

\* lines 38-40
SimilarityAgainst(content, corpus) ==
  IF Len(corpus) > 0
  THEN MathMax([d \in DOMAIN corpus |->
                  calculateSimilarity(content, corpus[d].content)])
  ELSE 0

\* lines 42-55: newResult
NewResult(file, extracted, corpus, clock) ==
  [ id        |-> clock,
    fileName  |-> file.name,
    fileType  |-> file.type,
    content   |-> extracted.text,
    similarity |-> SimilarityAgainst(extracted.text, corpus),
    matches   |-> findDetailedMatches(extracted.text, corpus),
    timestamp |-> clock,
    wordCount |-> getWordCount(extracted.text),
    pageCount |-> extracted.pageCount ]

\* a mutant: the message shown is always the general one
ErrorMessage_general(exception) ==
  <<"An error occurred while processing the file.">>

\* line 59
ErrorMessage(exception) ==
  IF exception.isError THEN exception.message
  ELSE <<"An error occurred while processing the file.">>

NoError == [isNull |-> TRUE]

ErrorText(message) == [isNull |-> FALSE, message |-> message]

NoUpload == [pc |-> "none"]

AppInit ==
  /\ results = <<>>
  /\ loading = FALSE
  /\ error = NoError
  /\ upload = NoUpload
  /\ now = 1
  /\ done = NoUpload

EngineInit == AppInit /\ call = Idle

EngineNext ==
  \/ Invoke
  \/ RunGetSignificantWords
  \/ RunCalculateSimilarity
  \/ RunCalculateSentenceSimilarity
  \/ RunFindDetailedMatches
  \/ Return

SpecEngine == EngineInit /\ [][EngineNext]_vars

(***************************************************************************)
(* The files a user uploads.                                               *)
(***************************************************************************)
\* the most uploads of a run
MaxUploads == 3

File(name, type, size, failure, pages, hasImages) ==
  [ name |-> name, type |-> type, size |-> size, failure |-> failure,
    pages |-> pages, hasImages |-> hasImages ]

\* a text file with runs of white space, a control character and a '#'
Raw_a ==
  <<" ", "\n">> \o S_jumps \o <<".", "\n", "\n">> \o S_sleeps
    \o <<".", "\t", " ">> \o S_lazy \o <<"#", "<U+0000>", ".", " ">>

Raw_b ==
  S_lazy \o <<".", " ">>
    \o Join(<<W_over, W_today, W_lazy, W_dogs, W_often, W_cat>>, <<" ">>)
    \o <<".">>

Page_1 == S_jumps \o <<".">>

Page_3 == S_sleeps \o <<" ">> \o W_today \o <<".">>

F_a == File("a.txt", "text/plain", 2048, NoFailure, <<Raw_a>>, FALSE)

F_b == File("b.txt", "text/plain", MAX_FILE_SIZE, NoFailure, <<Raw_b>>, FALSE)

F_c ==
  File("c.pdf", "application/pdf", 4096, NoFailure,
       <<Page_1, <<" ", " ">>, Page_3>>, TRUE)

F_image == File("d.png", "image/png", 2048, NoFailure, <<Raw_a>>, FALSE)

F_largeText ==
  File("e.txt", "text/plain", MAX_FILE_SIZE + 1, NoFailure, <<Raw_a>>, FALSE)

F_largePDF ==
  File("f.pdf", "application/pdf", 25 * 1024 * 1024 + 60000, NoFailure,
       <<Page_1, Page_3>>, FALSE)

F_tinyText ==
  File("g.txt", "text/plain", 16, NoFailure, <<W_cat \o <<" ", "\n">> \o W_fox>>, FALSE)

F_briefText == File("h.txt", "text/plain", 32, NoFailure, <<Page_1>>, FALSE)

F_briefPDF == File("i.pdf", "application/pdf", 1024, NoFailure, <<Page_3>>, FALSE)

F_scanned == File("j.pdf", "application/pdf", 4096, NoFailure, << <<>> >>, TRUE)

F_blank == File("k.pdf", "application/pdf", 4096, NoFailure, << <<" ">> >>, FALSE)

F_corrupt ==
  File("l.pdf", "application/pdf", 4096, Error(<<"Invalid PDF structure.">>),
       <<>>, FALSE)

F_locked ==
  File("m.pdf", "application/pdf", 4096, Error(<<"Incorrect Password">>),
       <<>>, FALSE)

F_noPassword ==
  File("n.pdf", "application/pdf", 4096, Error(<<"No password given">>),
       <<>>, FALSE)

F_crash ==
  File("o.pdf", "application/pdf", 4096, NonError(<<"worker terminated">>),
       <<>>, FALSE)

F_unreadable ==
  File("p.txt", "text/plain", 2048,
       Error(<<"The requested file could not be read.">>), <<>>, FALSE)

FilePool ==
  { F_a, F_b, F_c, F_image, F_largeText, F_largePDF, F_tinyText, F_briefText,
    F_briefPDF, F_scanned, F_blank, F_corrupt, F_locked, F_noPassword, F_crash,
    F_unreadable }

(***************************************************************************)
(* App: handleFileUpload, deleteResult and clearAll.                       *)
(***************************************************************************)
\* lines 24-32: a file is selected; the handler runs to its await, holding
\* the `results` of the render it was created in
StartUpload ==
  /\ ~loading
  /\ now <= MaxUploads
  /\ \E file \in FilePool :
       upload' = [pc |-> "extracting", file |-> file, results |-> results]
  /\ loading' = TRUE
  /\ error' = NoError
  /\ UNCHANGED <<results, now, done, call>>

\* lines 25-26: the change event carries no file
NoFileSelected ==
  /\ ~loading
  /\ UNCHANGED vars

\* the functions of the engine a successful upload calls, in order
EngineCalls(corpus) ==
  [d \in DOMAIN corpus |-> "calculateSimilarity"]
    \o <<"findDetailedMatches", "getWordCount">>

\* handleFileUpload had it read the corpus through the state at the time the
\* extraction resolves, and not through the `results` of its closure
UploadSucceeds_current ==
  /\ upload.pc = "extracting"
  /\ LET extracted == ExtractContent(upload.file)
     IN  /\ extracted.ok
         /\ LET newResult == NewResult(upload.file, extracted, results, now)
            IN  /\ results' = <<newResult>> \o results
                /\ done' = [pc |-> "added", file |-> upload.file,
                            corpus |-> upload.results, current |-> results,
                            record |-> newResult,
                            calls |-> EngineCalls(results)]
  /\ loading' = FALSE
  /\ upload' = NoUpload
  /\ now' = now + 1
  /\ UNCHANGED <<error, call>>

\* lines 32-57 and 60-65: the extraction resolves with enough content; the
\* similarity and the matches are computed on the `results` of the closure
\* (lines 38-42), the record is prepended to the state of the time (line 57)
UploadSucceeds ==
  /\ upload.pc = "extracting"
  /\ LET extracted == ExtractContent(upload.file)
     IN  /\ extracted.ok
         /\ LET newResult == NewResult(upload.file, extracted, upload.results, now)
            IN  /\ results' = <<newResult>> \o results
                /\ done' = [pc |-> "added", file |-> upload.file,
                            corpus |-> upload.results, current |-> results,
                            record |-> newResult,
                            calls |-> EngineCalls(upload.results)]
  /\ loading' = FALSE
  /\ upload' = NoUpload
  /\ now' = now + 1
  /\ UNCHANGED <<error, call>>

\* handleFileUpload without its finally block (lines 60-65) on the path of
\* the catch: the failure is shown and loading stays as it is
UploadFails_loading ==
  /\ upload.pc = "extracting"
  /\ LET extracted == ExtractContent(upload.file)
     IN  /\ ~extracted.ok
         /\ error' = ErrorText(ErrorMessage(extracted.thrown))
         /\ done' = [pc |-> "failed", file |-> upload.file,
                     corpus |-> upload.results, current |-> results,
                     thrown |-> extracted.thrown, calls |-> <<>>]
  /\ upload' = NoUpload
  /\ now' = now + 1
  /\ UNCHANGED <<results, loading, call>>

\* lines 32-36 and 58-65: the extraction rejects, or the content is too short
UploadFails ==
  /\ upload.pc = "extracting"
  /\ LET extracted == ExtractContent(upload.file)
     IN  /\ ~extracted.ok
         /\ error' = ErrorText(ErrorMessage(extracted.thrown))
         /\ done' = [pc |-> "failed", file |-> upload.file,
                     corpus |-> upload.results, current |-> results,
                     thrown |-> extracted.thrown, calls |-> <<>>]
  /\ loading' = FALSE
  /\ upload' = NoUpload
  /\ now' = now + 1
  /\ UNCHANGED <<results, call>>

\* lines 90-92
deleteResult ==
  \E k \in DOMAIN results :
    LET Others(result) == result.id # results[k].id
    IN  /\ results' = SelectSeq(results, Others)
        /\ UNCHANGED <<loading, error, upload, now, done, call>>

\* lines 94-96; the button is rendered when there are results
clearAll ==
  /\ Len(results) > 0
  /\ results' = <<>>
  /\ UNCHANGED <<loading, error, upload, now, done, call>>

Init == AppInit /\ call = Idle

Next ==
  \/ StartUpload
  \/ NoFileSelected
  \/ UploadSucceeds
  \/ UploadFails
  \/ deleteResult
  \/ clearAll

Spec == Init /\ [][Next]_vars

\* lines 32-65: the handler invocation in flight runs to its end.  The
\* promise of extractTextFromFile settles (file.text(), getDocument and
\* getTextContent resolve or reject, the loop over the pages is bounded by
\* numPages), and the continuation of the await has no other await and no
\* loop, so it reaches the finally block.  Of the steps of Next the ones
\* that take upload from "extracting" to none are those of UploadSucceeds
\* and UploadFails, one of which is enabled whenever an upload is in flight.
UploadSettles ==
  /\ upload.pc = "extracting"
  /\ upload' = NoUpload
  /\ loading' = FALSE

Fairness == WF_<<upload, loading>>(UploadSettles)

SpecLive == Init /\ [][Next]_vars /\ Fairness

(***************************************************************************)
(* Properties of the tokenizer and of the two similarity measures.         *)
(***************************************************************************)
ReturnedFrom(f) == call.pc = "returned" /\ call.req.fn = f

\* the maximal runs of characters other than white space, as <<first, last>>
WordRuns(text) ==
  { <<i, j>> \in (DOMAIN text) \X (DOMAIN text) :
      /\ i <= j
      /\ \A k \in i..j : text[k] \notin {" ", "\t", "\n"}
      /\ i = 1 \/ text[i - 1] \in {" ", "\t", "\n"}
      /\ j = Len(text) \/ text[j + 1] \in {" ", "\t", "\n"} }

\* a run that getSignificantWords is to keep: letters only, three or more,
\* and not a stop word once in lower case
KeptRun(text, r) ==
  LET w == SubSeq(text, r[1], r[2])
  IN  /\ \A k \in DOMAIN w : w[k] \in Range(LOWER) \cup Range(UPPER)
      /\ Len(w) >= 3
      /\ toLowerCase(w) \notin stopWords

\* C9: every token getSignificantWords returns is lower-case alphabetic, of
\* length three or more and no stop word; the tokens returned are exactly the
\* white-space delimited tokens of the text that are alphabetic as a whole
\* (one with a digit or a punctuation character is dropped, not cleaned), in
\* the order of the text and with their repetitions, in lower case.
C9_SignificantWords ==
  ReturnedFrom("getSignificantWords") =>
    LET text == call.req.text
        ret == call.ret
        kept == { r \in WordRuns(text) : KeptRun(text, r) }
        Position(r) == Cardinality({ q \in kept : q[1] <= r[1] })
    IN  /\ \A k \in DOMAIN ret :
             /\ \A m \in DOMAIN ret[k] : ret[k][m] \in Range(LOWER)
             /\ Len(ret[k]) >= 3
             /\ ret[k] \notin stopWords
        /\ Len(ret) = Cardinality(kept)
        /\ \A r \in kept : ret[Position(r)] = toLowerCase(SubSeq(text, r[1], r[2]))
        /\ (WordRuns(text) = {} \/ kept = {}) => ret = <<>>

\* C9 witness: a text with a token ending in punctuation and an upper-case
\* token, of which a repeated word is returned twice
C9_Witness ==
  /\ ReturnedFrom("getSignificantWords")
  /\ \E r \in WordRuns(call.req.text) : call.req.text[r[2]] = "."
  /\ \E k \in DOMAIN call.req.text : call.req.text[k] = "D"
  /\ Len(call.ret) = 2
  /\ call.ret[1] = call.ret[2]

\* C4: calculateSimilarity is symmetric, and a text with a significant word
\* is 100% similar to itself.
C4_SymmetricAndReflexive ==
  ReturnedFrom("calculateSimilarity") =>
    /\ call.ret = calculateSimilarity(call.req.text2, call.req.text1)
    /\ Len(getSignificantWords(call.req.text1)) >= 1 =>
         calculateSimilarity(call.req.text1, call.req.text1) = 100
    /\ (call.req.text1 = call.req.text2
          /\ Len(getSignificantWords(call.req.text1)) >= 1) => call.ret = 100

\* C4 witness: two texts of different vocabularies that overlap in part
C4_Witness ==
  /\ ReturnedFrom("calculateSimilarity")
  /\ Len(getSignificantWords(call.req.text1)) = 3
  /\ Len(getSignificantWords(call.req.text2)) = 2
  /\ call.ret > 0
  /\ call.ret < 100

\* C5: both measures return an integer from 0 to 100, and 0 when either
\* argument has no significant word.
C5_PercentRange ==
  (ReturnedFrom("calculateSimilarity")
     \/ ReturnedFrom("calculateSentenceSimilarity")) =>
    /\ call.ret \in 0..100
    /\ (getSignificantWords(call.req.text1) = <<>>
          \/ getSignificantWords(call.req.text2) = <<>>) => call.ret = 0

\* C5 witness: a sentence of stop words only against one with significant words
C5_Witness ==
  /\ ReturnedFrom("calculateSentenceSimilarity")
  /\ Len(call.req.text1) > 0
  /\ getSignificantWords(call.req.text1) = <<>>
  /\ Len(getSignificantWords(call.req.text2)) = 2
  /\ call.ret = 0

PairsOf(text, corpus) ==
  LET new == extractSentences(text)
  IN  UNION { LET prior == extractSentences(corpus[d].content)
              IN  { [ d |-> d, i |-> i, j |-> j,
                      score |-> calculateSentenceSimilarity(new[i], prior[j]),
                      sentence |-> new[i],
                      sourceFile |-> corpus[d].fileName ] :
                    i \in DOMAIN new, j \in DOMAIN prior } :
              d \in DOMAIN corpus }

Qualifying(pairs) == { p \in pairs : p.score >= 75 }

\* the order of encounter of the code: corpus document, then sentence of
\* the new document, then sentence of the corpus document
CorpusFirst(p, q) ==
  \/ p.d < q.d
  \/ p.d = q.d /\ p.i < q.i
  \/ p.d = q.d /\ p.i = q.i /\ p.j < q.j

\* the order of encounter as claimed: sentence of the new document, then
\* corpus document, then sentence of the corpus document
NewSentenceFirst(p, q) ==
  \/ p.i < q.i
  \/ p.i = q.i /\ p.d < q.d
  \/ p.i = q.i /\ p.d = q.d /\ p.j < q.j

\* the place of pair p among the qualifying pairs: by score descending,
\* equal scores by the given order of encounter
PlaceOf(p, qualifying, Earlier(_, _)) ==
  1 + Cardinality({ q \in qualifying :
                      \/ q.score > p.score
                      \/ q.score = p.score /\ Earlier(q, p) })

\* what is shown of a sentence: itself up to 200 characters, else its first
\* 200 characters and the marker
Shown(sentence) ==
  IF Len(sentence) <= 200 THEN sentence
  ELSE [k \in 1..203 |-> IF k <= 200 THEN sentence[k] ELSE "."]

EntryOf(p) ==
  [ sentence |-> Shown(p.sentence), similarity |-> p.score,
    sourceFile |-> p.sourceFile ]

Least(a, b) == IF a <= b THEN a ELSE b

\* the matches returned are the first five qualifying pairs in the order
\* given by Earlier
RankedBy(Earlier(_, _)) ==
  LET qualifying == Qualifying(PairsOf(call.req.text, call.req.corpus))
  IN  /\ Len(call.ret) = Least(5, Cardinality(qualifying))
      /\ \A p \in qualifying :
           PlaceOf(p, qualifying, Earlier) <= 5 =>
             call.ret[PlaceOf(p, qualifying, Earlier)] = EntryOf(p)

\* C1 as stated: matches are ordered by similarity descending, equal
\* similarities by new-document sentence, then corpus document, then
\* prior-document sentence; the first five are returned.
C1_Claimed_NewSentenceFirst ==
  ReturnedFrom("findDetailedMatches") => RankedBy(NewSentenceFirst)

\* C1 as amended: matches are ordered by similarity descending, equal
\* similarities by corpus document, then new-document sentence, then
\* prior-document sentence; the first five are returned.
C1_RankedCorpusFirst ==
  ReturnedFrom("findDetailedMatches") => RankedBy(CorpusFirst)

\* C1 witness: two returned matches of equal score, the one of the later
\* new-document sentence from the earlier corpus document
C1_Witness ==
  /\ ReturnedFrom("findDetailedMatches")
  /\ LET qualifying == Qualifying(PairsOf(call.req.text, call.req.corpus))
     IN  \E p, q \in qualifying :
           /\ p.score = q.score
           /\ p.d < q.d
           /\ p.i > q.i
           /\ PlaceOf(p, qualifying, CorpusFirst) < PlaceOf(q, qualifying, CorpusFirst)
           /\ PlaceOf(q, qualifying, CorpusFirst) <= 5
           /\ call.ret[PlaceOf(p, qualifying, CorpusFirst)]
                # call.ret[PlaceOf(q, qualifying, CorpusFirst)]

\* C2: findDetailedMatches returns at most five entries, of non-increasing
\* similarity.
C2_AtMostFiveNonIncreasing ==
  ReturnedFrom("findDetailedMatches") =>
    /\ Len(call.ret) <= 5
    /\ \A k \in 1..(Len(call.ret) - 1) :
         call.ret[k].similarity >= call.ret[k + 1].similarity

\* C2 witness: more than five candidates, of two different scores, cut to five
C2_Witness ==
  /\ ReturnedFrom("findDetailedMatches")
  /\ Cardinality(Qualifying(PairsOf(call.req.text, call.req.corpus))) > 5
  /\ Len(call.ret) = 5
  /\ call.ret[1].similarity > call.ret[5].similarity

\* C3: every pair of the cross product is scored and is a candidate exactly
\* when its score is 75 or more: every match returned has a similarity from
\* 75 to 100 and is the entry of a qualifying pair, the number returned is
\* the number of qualifying pairs up to five, and with five or fewer
\* qualifying pairs each of them is returned, once per pair.
C3_ThresholdOverCrossProduct ==
  ReturnedFrom("findDetailedMatches") =>
    LET qualifying == Qualifying(PairsOf(call.req.text, call.req.corpus))
        entries == { EntryOf(p) : p \in qualifying }
    IN  /\ \A k \in DOMAIN call.ret :
             /\ call.ret[k].similarity \in 75..100
             /\ call.ret[k] \in entries
        /\ Len(call.ret) = Least(5, Cardinality(qualifying))
        /\ Cardinality(qualifying) <= 5 =>
             \A e \in entries :
               Cardinality({ k \in DOMAIN call.ret : call.ret[k] = e })
                 = Cardinality({ p \in qualifying : EntryOf(p) = e })

\* C3 witness: two documents, pairs at the threshold itself, above it and
\* below it, and no more than five that qualify
C3_Witness ==
  /\ ReturnedFrom("findDetailedMatches")
  /\ Len(call.req.corpus) = 2
  /\ LET pairs == PairsOf(call.req.text, call.req.corpus)
     IN  /\ Cardinality(Qualifying(pairs)) \in 3..5
         /\ \E p \in pairs : p.score = 75
         /\ \E p \in pairs : p.score = 100
         /\ \E p \in pairs : p.score \in 1..74
  /\ Len(call.ret) \in 3..5

\* C8: the sentence of a returned match is the new-document sentence when
\* that is 200 characters or fewer, and else its first 200 characters and the
\* marker; its similarity is the score of the whole sentence.
C8_TruncatedForDisplayOnly ==
  ReturnedFrom("findDetailedMatches") =>
    LET qualifying == Qualifying(PairsOf(call.req.text, call.req.corpus))
    IN  \A p \in qualifying :
          LET k == PlaceOf(p, qualifying, CorpusFirst)
          IN  k <= 5 =>
                /\ call.ret[k].similarity = p.score
                /\ Len(p.sentence) <= 200 => call.ret[k].sentence = p.sentence
                /\ Len(p.sentence) > 200 =>
                     /\ Len(call.ret[k].sentence) = 203
                     /\ SubSeq(call.ret[k].sentence, 1, 200) = SubSeq(p.sentence, 1, 200)
                     /\ SubSeq(call.ret[k].sentence, 201, 203) = <<".", ".", ".">>

\* C8 witness: a sentence of 250 characters returned cut, with the score
\* 100 of the whole sentence, beside one of exactly 200 characters returned
\* whole
C8_Witness ==
  /\ ReturnedFrom("findDetailedMatches")
  /\ Len(call.ret) = 2
  /\ Len(extractSentences(call.req.text)[1]) = 250
  /\ Len(call.ret[1].sentence) = 203
  /\ call.ret[1].similarity = 100
  /\ Len(call.ret[2].sentence) = 200
  /\ call.ret[2].sentence = extractSentences(call.req.text)[2]

(***************************************************************************)
(* Properties of the upload pipeline.                                      *)
(***************************************************************************)
\* the step in which the handleFileUpload invocation in flight ends
UploadEnds == upload.pc = "extracting" /\ upload' # upload

\* C7: the record a successful upload adds has for similarity the greatest
\* calculateSimilarity of the new text against a document of the corpus
\* handed to the engine (0 when that corpus is empty) and for matches
\* findDetailedMatches of the new text over that corpus, of which the new
\* record is no element.
C7_RecordOfUpload ==
  [][ (UploadEnds /\ Len(results') > Len(results)) =>
        LET record == results'[1]
            corpus == upload.results
            scores == { calculateSimilarity(record.content, corpus[d].content) :
                          d \in DOMAIN corpus }
        IN  /\ corpus = <<>> => record.similarity = 0
            /\ corpus # <<>> =>
                 /\ record.similarity \in scores
                 /\ \A x \in scores : x <= record.similarity
            /\ record.matches = findDetailedMatches(record.content, corpus)
            /\ \A d \in DOMAIN corpus : corpus[d] # record /\ corpus[d].id # record.id
            /\ record.content = ExtractContent(upload.file).text
    ]_vars

\* C7 witness: an upload against a corpus of two documents of different
\* similarity to it has added its record, with matches
C7_Witness ==
  /\ done.pc = "added"
  /\ Len(done.corpus) = 2
  /\ calculateSimilarity(done.record.content, done.corpus[1].content)
       < calculateSimilarity(done.record.content, done.corpus[2].content)
  /\ done.record.similarity
       = calculateSimilarity(done.record.content, done.corpus[2].content)
  /\ Len(done.record.matches) >= 1
  /\ results[1] = done.record

\* a rejected upload: its type is unsupported, it is larger than 20MB, its
\* extraction fails, or its text is shorter than the minimum
Rejected(file) ==
  \/ file.type \notin {"application/pdf", "text/plain"}
  \/ file.size > 20971520
  \/ ~extractTextFromFile(file).ok
  \/ Len(extractTextFromFile(file).text) < 50

\* the message of the failure of a rejected upload
FailureMessage(file) ==
  IF ~extractTextFromFile(file).ok
  THEN extractTextFromFile(file).thrown.message
  ELSE <<"File content is too short for meaningful plagiarism detection.">>

\* C10: a rejected upload ends without a call to the engine, leaves the
\* results as they are, shows the message of its failure, and is not run
\* again: the handler is over and the tool is idle.
C10_RejectedUpload ==
  [][ (UploadEnds /\ Rejected(upload.file)) =>
        /\ results' = results
        /\ error' = [isNull |-> FALSE, message |-> FailureMessage(upload.file)]
        /\ done'.calls = <<>>
        /\ upload' = NoUpload
        /\ loading' = FALSE
        /\ upload.file.type \notin {"application/pdf", "text/plain"} =>
             error'.message =
               <<"Unsupported file type. Please upload a PDF or TXT file.">>
        /\ (upload.file.type \in {"application/pdf", "text/plain"}
              /\ upload.file.size > 20971520) =>
             error'.message[1] = "File size exceeds 20MB limit. Current size: "
    ]_vars

\* C10 witness: a file larger than 20MB was rejected with results present,
\* which are as the upload found them
C10_Witness ==
  /\ done.pc = "failed"
  /\ done.file.size > 20971520
  /\ Len(results) = 2
  /\ results = done.corpus
  /\ error = [isNull |-> FALSE, message |-> done.thrown.message]
  /\ upload = NoUpload
  /\ ~loading

\* the file names of the documents of a corpus
FileNames(corpus) == { corpus[d].fileName : d \in DOMAIN corpus }

\* the similarities of a text to the documents of a snapshot, with 0, the
\* least similarity there is, for the snapshot that is empty
SnapshotScores(content, snapshot) ==
  {0} \cup { calculateSimilarity(content, snapshot[d].content) :
               d \in DOMAIN snapshot }

\* C11: the corpus an upload works on is the `results` of the moment it
\* started: a deleteResult or clearAll while its extraction is in flight
\* leaves that snapshot as it is, the similarity and the matches of the new
\* record are computed over the snapshot, every sourceFile of a match names
\* a document of the snapshot, and the record is prepended to the results of
\* the moment the upload ends, deleted documents not among them.
C11_SnapshotCorpus ==
  [][ /\ (upload.pc = "none" /\ upload'.pc = "extracting") =>
           upload'.results = results /\ results' = results
      /\ (upload.pc = "extracting" /\ upload'.pc = "extracting") =>
           /\ upload' = upload
           /\ \A k \in DOMAIN results' :
                \E j \in DOMAIN results : results'[k] = results[j]
      /\ (UploadEnds /\ Len(results') > Len(results)) =>
           LET record == results'[1]
               snapshot == upload.results
           IN  /\ results' = <<record>> \o results
               /\ record.similarity \in SnapshotScores(record.content, snapshot)
               /\ \A x \in SnapshotScores(record.content, snapshot) :
                    x <= record.similarity
               /\ record.matches = findDetailedMatches(record.content, snapshot)
               /\ \A m \in DOMAIN record.matches :
                    record.matches[m].sourceFile \in FileNames(snapshot)
    ]_vars

\* C11 witness: the corpus of two documents was cleared while an upload was
\* in flight; the record it added is the only one left, with a similarity
\* above 0 and a match whose sourceFile is no document of the results
C11_Witness ==
  /\ done.pc = "added"
  /\ Len(done.corpus) = 2
  /\ done.current = <<>>
  /\ results = <<done.record>>
  /\ done.record.similarity > 0
  /\ Len(done.record.matches) >= 1
  /\ done.record.matches[1].sourceFile \in FileNames(done.corpus)
  /\ done.record.matches[1].sourceFile \notin FileNames(results)

\* C11 witness of a deleteResult in flight: one of the two documents of the
\* snapshot was deleted before the upload ended, and the first match of the
\* record names it
C11_WitnessDeleted ==
  /\ done.pc = "added"
  /\ Len(done.corpus) = 2
  /\ Len(done.current) = 1
  /\ results = <<done.record>> \o done.current
  /\ Len(done.record.matches) >= 1
  /\ done.record.matches[1].sourceFile \notin FileNames(done.current)

\* the step in which an upload starts
UploadStarts == upload.pc = "none" /\ upload'.pc = "extracting"

\* the upload that ends adds one record at the head of the results
OneRecordPrepended ==
  /\ Len(results') = Len(results) + 1
  /\ Tail(results') = results
  /\ results'[1].fileName = upload.file.name

\* C12: loading is true exactly while an upload is in flight; it becomes
\* true only in the step that starts an upload of a file, which clears the
\* error and leaves the results; while it is true no other upload starts
\* and the one in flight is not replaced; the step that makes it false ends
\* the upload, and is the step the fairness of the handler is about, with
\* exactly one of a record prepended to the results, the error still null,
\* and an error message set, the results as they were; and every upload in
\* flight ends.
C12_LoadingWhileProcessing ==
  /\ [](loading <=> upload.pc = "extracting")
  /\ [][ /\ (~loading /\ loading') =>
              /\ UploadStarts
              /\ upload'.file \in FilePool
              /\ error' = NoError
              /\ results' = results
         /\ UploadStarts => ~loading /\ loading'
         /\ UploadSettles <=> (loading /\ ~loading')
         /\ (loading /\ loading') => upload' = upload /\ error' = error
         /\ (loading /\ ~loading') =>
              /\ UploadEnds
              /\ upload' = NoUpload
              /\ OneRecordPrepended <=> error'.isNull
              /\ ~OneRecordPrepended => results' = results
        ]_vars
  /\ (loading ~> ~loading)

\* C12 witness: two uploads have ended, one with its record in the results
\* and the last with an error message, and loading is false
C12_Witness ==
  /\ ~loading
  /\ upload = NoUpload
  /\ now = 3
  /\ done.pc = "failed"
  /\ ~error.isNull
  /\ Len(results) = 1

\* C12 witness of the start: an upload is in flight after one that failed,
\* loading is true and the message of the failure is cleared
C12_WitnessStarted ==
  /\ loading
  /\ upload.pc = "extracting"
  /\ done.pc = "failed"
  /\ error = NoError

=============================================================================
